---------------------------- MODULE Spec2Model ----------------------------
(***************************************************************************)
(* A run of the ksp-commnet-calculator command line (src/main.rs):         *)
(* main -> w_main -> print_antennas | print_dists, with split_antenna_arg  *)
(* and the usize parse it relies on computed character by character.       *)
(* The antenna catalogue, the endpoint container and the range function    *)
(* belong to the ksp_commnet_calculator_core crate; they are modelled by   *)
(* their documented behaviour and by what main.rs requires of them.        *)
(***************************************************************************)
EXTENDS Integers, Sequences, FiniteSets, TLC

VARIABLES
    args_from,    \* the values given to -f/--from on the command line
    args_to,      \* the values given to -t/--to on the command line
    flag_antennas,\* whether -A/--antennas was given
    zeroStored,   \* the core crate's unknown treatment of add_antenna(_, 0)
    pc,           \* position of the run
    matches,      \* clap's ArgMatches (w_main, line 22)
    catalog,      \* `antennas` (w_main, line 46)
    from,         \* `from` endpoint of print_dists
    to,           \* `to` endpoint of print_dists
    i,            \* position of the running for loop in its value list
    range,        \* the endpoints from.range_to(&to) was computed from
    result,       \* what w_main returned
    out,          \* lines written to stdout
    err,          \* lines written to stderr
    exit,         \* the process's exit code, NotExited while running
    parsed,       \* history: the arguments handed to split_antenna_arg
    added,        \* history: the add_antenna calls made
    defaulted,    \* history: the endpoints whose is_empty fallback fired
    pa, pb,       \* inputs of the range function (SpecRange)
    dist,         \* its result (SpecRange)
    computed      \* whether SpecRange applied it

vars == <<args_from, args_to, flag_antennas, zeroStored, pc, matches, catalog,
          from, to, i, range, result, out, err, exit, parsed, added,
          defaulted, pa, pb, dist, computed>>

run_vars == <<args_from, args_to, flag_antennas, zeroStored, pc, matches,
              catalog, from, to, i, range, result, out, err, exit, parsed,
              added, defaulted>>

range_vars == <<pa, pb, dist, computed>>

---------------------------------------------------------------------------
(* Bounds *)

\* total number of values given to --from and --to together
MaxArgs == 2

\* largest combined power fed to the range function
MaxPower == 10

---------------------------------------------------------------------------
(* Strings are sequences of one-character strings. *)

INDENT == <<" ", " ", " ", " ">>

DEFAULT_FROM == <<"D", "S", "N", " ", "L", "v", ".", "3">>

DEFAULT_TO == <<"C", "o", "m", "m", "a", "n", "d", " ", "M", "o", "d", "u", "l", "e">>

\* the literal given to clap's default_value for "from"
ClapDefaultFrom == <<"D", "S", "N", " ", "L", "v", ".", "3">>

Colon == ":"

Digits == <<"0", "1", "2", "3", "4", "5", "6", "7", "8", "9">>

IsDigit(c) == \E k \in 1..10 : Digits[k] = c

DigitVal(c) == (CHOOSE k \in 1..10 : Digits[k] = c) - 1

\* the values a user may type (each one a case of the specifier syntax)
T_NameCount == DEFAULT_FROM \o <<":", "2">>
T_Unknown == <<"N", "o", "p", "e">>
T_CountName == <<"2", ":">> \o DEFAULT_FROM
T_Zero == DEFAULT_FROM \o <<":", "0">>
T_Negative == DEFAULT_FROM \o <<":", "-", "1">>
T_TwoColons == DEFAULT_FROM \o <<":", "1", ":", "2">>
T_NumNum == <<"2", ":", "3">>
T_Alias == <<"H", "G", "5">>

Tokens == {T_NameCount, T_Unknown, T_CountName, T_Zero, T_Negative,
           T_TwoColons, T_NumNum, T_Alias}

RECURSIVE SeqsUpTo(_, _)
SeqsUpTo(S, n) ==
    IF n = 0 THEN {<<>>}
    ELSE LET shorter == SeqsUpTo(S, n - 1)
         IN shorter \cup {Append(s, x) : s \in {t \in shorter : Len(t) = n - 1}, x \in S}

---------------------------------------------------------------------------
(* str::split(':') and str::parse::<usize>() *)

RECURSIVE split(_)
split(s) ==
    IF \A k \in 1..Len(s) : s[k] # Colon
    THEN <<s>>
    ELSE LET c == CHOOSE k \in 1..Len(s) :
                      s[k] = Colon /\ \A j \in 1..(k - 1) : s[j] # Colon
         IN <<SubSeq(s, 1, c - 1)>> \o split(SubSeq(s, c + 1, Len(s)))

RECURSIVE DecimalValue(_)
DecimalValue(ds) ==
    IF ds = <<>> THEN 0
    ELSE 10 * DecimalValue(SubSeq(ds, 1, Len(ds) - 1)) + DigitVal(ds[Len(ds)])

\* usize::from_str: an optional '+', then one or more decimal digits; a '-',
\* an empty string or any other character is an error.  (The overflow error
\* needs 20 digits; the values of Tokens have at most one.)
parse(s) ==
    LET ds == IF s # <<>> /\ s[1] = "+" THEN Tail(s) ELSE s
    IN IF ds # <<>> /\ \A k \in 1..Len(ds) : IsDigit(ds[k])
       THEN [ok |-> TRUE, val |-> DecimalValue(ds)]
       ELSE [ok |-> FALSE, val |-> 0]

split_antenna_arg(s) ==
    LET parts == split(s)
    IN CASE Len(parts) = 1 ->
              [ok |-> TRUE, count |-> 1, name |-> parts[1], err |-> "none"]
         [] Len(parts) = 2 ->
              LET n == parse(parts[2])
              IN IF n.ok
                 THEN [ok |-> TRUE, count |-> n.val, name |-> parts[1], err |-> "none"]
                 ELSE [ok |-> FALSE, count |-> 0, name |-> <<>>, err |-> "ParseIntError"]
         [] OTHER ->
              [ok |-> FALSE, count |-> 0, name |-> <<>>, err |-> "specifier"]

---------------------------------------------------------------------------
(* The core crate, as main.rs uses it *)

\* Antennas::new(): the built-in catalogue.  main.rs fixes that it holds
\* DEFAULT_FROM and DEFAULT_TO (the two `expect`s) and that antennas have a
\* name and aliases (print_antennas).
AntennasNew ==
    << [name |-> DEFAULT_FROM, aliases |-> <<>>],
       [name |-> DEFAULT_TO, aliases |-> <<>>],
       [name |-> <<"H", "G", "-", "5">>,
        aliases |-> << <<"H", "G", "5">>, <<"h", "g", "5">> >>] >>

NotBuilt == <<>>

Matches(a, key) ==
    a.name = key \/ \E k \in 1..Len(a.aliases) : a.aliases[k] = key

\* Antennas::get: 0 stands for None, k > 0 for Some(catalogue entry k)
get(cat, key) ==
    IF \E k \in 1..Len(cat) : Matches(cat[k], key)
    THEN CHOOSE k \in 1..Len(cat) :
             Matches(cat[k], key) /\ \A j \in 1..(k - 1) : ~Matches(cat[j], key)
    ELSE 0

\* Endpoint::new()
EndpointNew == <<>>

\* Endpoint::is_empty
is_empty(ep) == ep = <<>>

\* Endpoint::add_antenna: returns (), so it has no error to report.  What it
\* does with a count of 0 is the core crate's business: both outcomes (the
\* pair is stored, nothing is stored) are kept, chosen once per run.
add_antenna(ep, antenna, count) ==
    IF count = 0 /\ ~zeroStored
    THEN ep
    ELSE Append(ep, [name |-> antenna.name, count |-> count])

Isqrt(n) == CHOOSE r \in 0..n : r * r <= n /\ (r + 1) * (r + 1) > n

max_distance_onesided(power_from, power_to) == Isqrt(power_from * power_from)

\* Range::max_distance of from.range_to(&to): sqrt(power_from * power_to),
\* on integers, rounded down
max_distance(power_from, power_to) == Isqrt(power_from * power_to)

---------------------------------------------------------------------------
(* Output lines *)

Line(kind, text, count) == [kind |-> kind, text |-> text, count |-> count]

RECURSIVE JoinAliases(_)
JoinAliases(as) ==
    IF as = <<>> THEN <<>>
    ELSE IF Len(as) = 1 THEN as[1]
    ELSE as[1] \o <<",", " ">> \o JoinAliases(Tail(as))

\* one line of print_antennas
AntennaLine(a) ==
    Line("text",
         INDENT \o a.name
             \o (IF a.aliases # <<>>
                 THEN <<" ", "(">> \o JoinAliases(a.aliases) \o <<")">>
                 ELSE <<>>),
         0)

print_antennas(cat) ==
    <<Line("Available antennas:", <<>>, 0)>>
        \o [k \in 1..Len(cat) |-> AntennaLine(cat[k])]

print_endpoint(ep) ==
    <<Line("endpoint_type", <<>>, 0), Line("Power", <<>>, 0),
      Line("Antennae:", <<>>, 0)>>
        \o [k \in 1..Len(ep) |->
               IF ep[k].count = 1
               THEN Line("antenna", ep[k].name, 1)
               ELSE Line("antenna_x", ep[k].name, ep[k].count)]

\* everything print_dists prints, lines 105 to 128
Report(f, t) ==
    <<Line("blank", <<>>, 0), Line("From:", <<>>, 0)>>
        \o print_endpoint(f)
        \o <<Line("To:", <<>>, 0)>>
        \o print_endpoint(t)
        \o <<Line("blank", <<>>, 0), Line("Max distance", <<>>, 0),
             Line("blank", <<>>, 0), Line("table_header", <<>>, 0),
             Line("table_rule", <<>>, 0), Line("table_rows", <<>>, 0),
             Line("blank", <<>>, 0)>>

---------------------------------------------------------------------------
(* The run *)

NotExited == -1

NoRange == [done |-> FALSE, from |-> <<>>, to |-> <<>>]

Ok == [ok |-> TRUE, err |-> "none", arg |-> <<>>]

Err(kind, s) == [ok |-> FALSE, err |-> kind, arg |-> s]

Init ==
    /\ args_from \in SeqsUpTo(Tokens, MaxArgs)
    /\ args_to \in SeqsUpTo(Tokens, MaxArgs)
    /\ Len(args_from) + Len(args_to) <= MaxArgs
    /\ flag_antennas \in BOOLEAN
    /\ zeroStored \in BOOLEAN
    /\ pc = "start"
    /\ matches = [from |-> <<>>, to |-> <<>>, antennas |-> FALSE]
    /\ catalog = NotBuilt
    /\ from = <<>>
    /\ to = <<>>
    /\ i = 0
    /\ range = NoRange
    /\ result = Ok
    /\ out = <<>>
    /\ err = <<>>
    /\ exit = NotExited
    /\ parsed = <<>>
    /\ added = <<>>
    /\ defaulted = {}
    /\ pa = 0 /\ pb = 0 /\ dist = 0 /\ computed = FALSE

\* App::new(..).get_matches(): "from" has a default value, "to" has none
GetMatches ==
    /\ pc = "start"
    /\ matches' = [from |-> IF args_from = <<>> THEN <<ClapDefaultFrom>> ELSE args_from,
                   to |-> args_to,
                   antennas |-> flag_antennas]
    /\ pc' = "new"
    /\ UNCHANGED <<args_from, args_to, flag_antennas, zeroStored, catalog, from,
                   to, i, range, result, out, err, exit, parsed, added, defaulted>>
    /\ UNCHANGED range_vars

\* let antennas = Antennas::new();
BuildCatalog ==
    /\ pc = "new"
    /\ catalog' = AntennasNew
    /\ pc' = "branch"
    /\ UNCHANGED <<args_from, args_to, flag_antennas, zeroStored, matches, from,
                   to, i, range, result, out, err, exit, parsed, added, defaulted>>
    /\ UNCHANGED range_vars

is_present_antennas_never(m) == FALSE

\* matches.is_present("antennas")
is_present_antennas(m) == m.antennas

\* if matches.is_present("antennas") { print_antennas(&antennas); return Ok(()) }
ListAntennas ==
    /\ pc = "branch"
    /\ is_present_antennas(matches)
    /\ out' = out \o print_antennas(catalog)
    /\ result' = Ok
    /\ pc' = "ret"
    /\ UNCHANGED <<args_from, args_to, flag_antennas, zeroStored, matches, catalog,
                   from, to, i, range, err, exit, parsed, added, defaulted>>
    /\ UNCHANGED range_vars

\* print_dists is entered: let mut from = Endpoint::new();
EnterPrintDists ==
    /\ pc = "branch"
    /\ ~is_present_antennas(matches)
    /\ from' = EndpointNew
    /\ i' = 1
    /\ pc' = "from_loop"
    /\ UNCHANGED <<args_from, args_to, flag_antennas, zeroStored, matches, catalog,
                   to, range, result, out, err, exit, parsed, added, defaulted>>
    /\ UNCHANGED range_vars

\* if let Some(antenna) = antennas.get(antenna_name) { ep.add_antenna(.., count) }
AddResolved(ep, r) ==
    IF get(catalog, r.name) # 0
    THEN add_antenna(ep, catalog[get(catalog, r.name)], r.count)
    ELSE ep

AddCalls(side, r) ==
    IF get(catalog, r.name) # 0
    THEN <<[side |-> side, name |-> catalog[get(catalog, r.name)].name, count |-> r.count]>>
    ELSE <<>>

\* one iteration of `for antenna_str in matches.values_of("from")`
FromStep ==
    /\ pc = "from_loop"
    /\ i <= Len(matches.from)
    /\ parsed' = Append(parsed, matches.from[i])
    /\ LET r == split_antenna_arg(matches.from[i])
       IN IF r.ok
          THEN /\ from' = AddResolved(from, r)
               /\ added' = added \o AddCalls("from", r)
               /\ i' = i + 1
               /\ UNCHANGED <<pc, result>>
          ELSE /\ result' = Err(r.err, matches.from[i])
               /\ pc' = "ret"
               /\ UNCHANGED <<from, added, i>>
    /\ UNCHANGED <<args_from, args_to, flag_antennas, zeroStored, matches, catalog,
                   to, range, out, err, exit, defaulted>>
    /\ UNCHANGED range_vars

with_default_always(ep, key) == add_antenna(ep, catalog[get(catalog, key)], 1)

with_default_never(ep, key) == ep

\* if ep.is_empty() { ep.add_antenna(antennas.get(DEFAULT).expect(..).clone(), 1) }
with_default(ep, key) ==
    IF is_empty(ep) THEN add_antenna(ep, catalog[get(catalog, key)], 1) ELSE ep

\* the end of the "from" loop, the fallback, and let mut to = Endpoint::new();
FromDefault ==
    /\ pc = "from_loop"
    /\ i > Len(matches.from)
    /\ from' = with_default(from, DEFAULT_FROM)
    /\ added' = added \o (IF from' # from
                          THEN <<[side |-> "from", name |-> DEFAULT_FROM, count |-> 1]>>
                          ELSE <<>>)
    /\ defaulted' = defaulted \cup (IF from' # from THEN {"from"} ELSE {})
    /\ to' = EndpointNew
    /\ i' = 1
    /\ pc' = "to_loop"
    /\ UNCHANGED <<args_from, args_to, flag_antennas, zeroStored, matches, catalog,
                   range, result, out, err, exit, parsed>>
    /\ UNCHANGED range_vars

\* one iteration of `for antenna_str in matches.values_of("to").unwrap_or_default()`
ToStep ==
    /\ pc = "to_loop"
    /\ i <= Len(matches.to)
    /\ parsed' = Append(parsed, matches.to[i])
    /\ LET r == split_antenna_arg(matches.to[i])
       IN IF r.ok
          THEN /\ to' = AddResolved(to, r)
               /\ added' = added \o AddCalls("to", r)
               /\ i' = i + 1
               /\ UNCHANGED <<pc, result>>
          ELSE /\ result' = Err(r.err, matches.to[i])
               /\ pc' = "ret"
               /\ UNCHANGED <<to, added, i>>
    /\ UNCHANGED <<args_from, args_to, flag_antennas, zeroStored, matches, catalog,
                   from, range, out, err, exit, defaulted>>
    /\ UNCHANGED range_vars

\* the end of the "to" loop and its fallback
ToDefault ==
    /\ pc = "to_loop"
    /\ i > Len(matches.to)
    /\ to' = with_default(to, DEFAULT_TO)
    /\ added' = added \o (IF to' # to
                          THEN <<[side |-> "to", name |-> DEFAULT_TO, count |-> 1]>>
                          ELSE <<>>)
    /\ defaulted' = defaulted \cup (IF to' # to THEN {"to"} ELSE {})
    /\ pc' = "range"
    /\ UNCHANGED <<args_from, args_to, flag_antennas, zeroStored, matches, catalog,
                   from, i, range, result, out, err, exit, parsed>>
    /\ UNCHANGED range_vars

\* a fallback for `to` that runs only after the range was taken
RangeToThenDefault ==
    /\ pc = "range"
    /\ range' = [done |-> TRUE, from |-> from, to |-> to]
    /\ to' = add_antenna(to, catalog[get(catalog, DEFAULT_TO)], 1)
    /\ pc' = "report"
    /\ UNCHANGED <<args_from, args_to, flag_antennas, zeroStored, matches, catalog,
                   from, i, result, out, err, exit, parsed, added, defaulted>>
    /\ UNCHANGED range_vars

\* let range = from.range_to(&to);
RangeTo ==
    /\ pc = "range"
    /\ range' = [done |-> TRUE, from |-> from, to |-> to]
    /\ pc' = "report"
    /\ UNCHANGED <<args_from, args_to, flag_antennas, zeroStored, matches, catalog,
                   from, to, i, result, out, err, exit, parsed, added, defaulted>>
    /\ UNCHANGED range_vars

\* lines 105 to 130: the report, then Ok(())
PrintReport ==
    /\ pc = "report"
    /\ out' = out \o Report(from, to)
    /\ result' = Ok
    /\ pc' = "ret"
    /\ UNCHANGED <<args_from, args_to, flag_antennas, zeroStored, matches, catalog,
                   from, to, i, range, err, exit, parsed, added, defaulted>>
    /\ UNCHANGED range_vars

exit_code_always_zero(r) == 0

\* main: std::process::exit(1) on Err, a normal return otherwise
exit_code(r) == IF r.ok THEN 0 ELSE 1

\* main: if let Err(e) = w_main() { eprintln!("Error: {}", e); exit(1) }
Main ==
    /\ pc = "ret"
    /\ err' = IF result.ok THEN err ELSE Append(err, Line("Error", result.arg, 0))
    /\ exit' = exit_code(result)
    /\ pc' = "exit"
    /\ UNCHANGED <<args_from, args_to, flag_antennas, zeroStored, matches, catalog,
                   from, to, i, range, result, out, parsed, added, defaulted>>
    /\ UNCHANGED range_vars

Next ==
    \/ GetMatches
    \/ BuildCatalog
    \/ ListAntennas
    \/ EnterPrintDists
    \/ FromStep
    \/ FromDefault
    \/ ToStep
    \/ ToDefault
    \/ RangeTo
    \/ PrintReport
    \/ Main

Spec == Init /\ [][Next]_vars

---------------------------------------------------------------------------
(* The range function on its own *)

InitRange ==
    /\ pa \in 0..MaxPower
    /\ pb \in 0..MaxPower
    /\ dist = 0
    /\ computed = FALSE
    /\ args_from = <<>> /\ args_to = <<>>
    /\ flag_antennas = FALSE /\ zeroStored = FALSE
    /\ pc = "range_only"
    /\ matches = [from |-> <<>>, to |-> <<>>, antennas |-> FALSE]
    /\ catalog = NotBuilt
    /\ from = <<>> /\ to = <<>> /\ i = 0
    /\ range = NoRange /\ result = Ok
    /\ out = <<>> /\ err = <<>> /\ exit = NotExited
    /\ parsed = <<>> /\ added = <<>> /\ defaulted = {}

ComputeRange ==
    /\ ~computed
    /\ dist' = max_distance(pa, pb)
    /\ computed' = TRUE
    /\ UNCHANGED <<pa, pb>>
    /\ UNCHANGED run_vars

NextRange == ComputeRange

SpecRange == InitRange /\ [][NextRange]_vars

---------------------------------------------------------------------------
(* Properties *)

\* the values the loops of print_dists run over, "from" first
Values == matches.from \o matches.to

Malformed(t) == ~split_antenna_arg(t).ok

HasMalformed == \E k \in 1..Len(Values) : Malformed(Values[k])

FirstMalformed ==
    CHOOSE k \in 1..Len(Values) :
        Malformed(Values[k]) /\ \A j \in 1..(k - 1) : ~Malformed(Values[j])

Unresolved(t) ==
    /\ split_antenna_arg(t).ok
    /\ catalog # NotBuilt
    /\ get(catalog, split_antenna_arg(t).name) = 0

ZeroCount(t) == split_antenna_arg(t).ok /\ split_antenna_arg(t).count = 0

Occurs(t, s) == \E k \in 1..Len(s) : s[k] = t

\* C1: a specifier whose key is not in the catalogue is an error of the run:
\* once such a specifier was processed no range is computed, and the run
\* exits with code 1.
C1_UnknownKeyIsAnError ==
    \A k \in 1..Len(parsed) :
        Unresolved(parsed[k]) => (~range.done /\ (pc = "exit" => exit = 1))

\* C2: with no --from and no --to value, the range is computed from exactly
\* one (DEFAULT_FROM, 1) pair and exactly one (DEFAULT_TO, 1) pair.
C2_EmptyListsGetDefaults ==
    (args_from = <<>> /\ args_to = <<>>) =>
        /\ pc = "range" =>
              /\ from = <<[name |-> DEFAULT_FROM, count |-> 1]>>
              /\ to = <<[name |-> DEFAULT_TO, count |-> 1]>>
        /\ range.done =>
              /\ range.from = <<[name |-> DEFAULT_FROM, count |-> 1]>>
              /\ range.to = <<[name |-> DEFAULT_TO, count |-> 1]>>

C2_Witness ==
    /\ args_from = <<>> /\ args_to = <<>>
    /\ range.done
    /\ pc = "exit"
    /\ exit = 0

\* C3: the is_empty fallback puts the default device into an endpoint only
\* when the caller gave no value for that endpoint.
C3_DefaultOnlyForEmptyList ==
    /\ "from" \in defaulted => args_from = <<>>
    /\ "to" \in defaulted => args_to = <<>>

\* C4: every add_antenna call carries a count >= 1, and a specifier with a
\* count of 0 is rejected: no range is computed after it was processed.
C4_CountsArePositive ==
    /\ \A k \in 1..Len(added) : added[k].count >= 1
    /\ \A k \in 1..Len(parsed) : ZeroCount(parsed[k]) => ~range.done

\* C5: split_antenna_arg follows [<NUMBER_OF_ANTENNA>:]<ANTENNA_NAME>: a value
\* without ':' is (1, value), and "N:NAME" with N a decimal number is
\* (N, NAME).
C5_DocumentedShape ==
    \A k \in 1..Len(parsed) :
        LET parts == split(parsed[k])
            r == split_antenna_arg(parsed[k])
        IN /\ Len(parts) = 1 =>
                 (r.ok /\ r.count = 1 /\ r.name = parsed[k])
           /\ (Len(parts) = 2 /\ parse(parts[1]).ok) =>
                 (r.ok /\ r.count = parse(parts[1]).val /\ r.name = parts[2])

\* C6: from.range_to(&to) is reached, and was computed, only with both
\* endpoints non-empty.
C6_RangeOnNonEmpty ==
    /\ pc = "range" => (~is_empty(from) /\ ~is_empty(to))
    /\ range.done => (~is_empty(range.from) /\ ~is_empty(range.to))

C6_Witness ==
    /\ range.done
    /\ ~zeroStored
    /\ Occurs(T_Zero, args_from)
    /\ Occurs(T_Unknown, args_to)

\* C7: the maximum distance is the same with the two powers swapped, and it
\* is 0 when either power is 0.
C7_Symmetric ==
    computed =>
        /\ dist = max_distance(pb, pa)
        /\ (pa = 0 \/ pb = 0) => dist = 0

C7_Witness ==
    /\ computed
    /\ pa > pb
    /\ pb > 0
    /\ dist > 0

C8_Body ==
    /\ out = <<>>
    /\ Len(parsed) <= FirstMalformed
    /\ pc # "exit" => ENABLED Next
    /\ pc = "exit" =>
          /\ exit = 1
          /\ err = <<Line("Error", Values[FirstMalformed], 0)>>
          /\ parsed = SubSeq(Values, 1, FirstMalformed)
          /\ ~range.done

\* C8 as stated: whenever some --from or --to value is malformed, the run
\* prints no report line, processes nothing after the first malformed value
\* and ends with the message on stderr and exit code 1.
C8_MalformedAlwaysFails == HasMalformed => C8_Body

\* C8, amended: the same, for the runs without the --antennas flag.
C8_MalformedFailsWithoutFlag == (HasMalformed /\ ~flag_antennas) => C8_Body

C8_Witness ==
    /\ pc = "exit"
    /\ ~flag_antennas
    /\ exit = 1
    /\ Len(matches.from) = 1
    /\ FirstMalformed = 2
    /\ Len(parsed) = 2
    /\ added # <<>>

\* C9: the catalogue, once built, never changes; once the range is computed
\* the endpoints receive no add_antenna, and the report prints the endpoints
\* the range was computed from.
C9_Lifecycle ==
    [][ /\ catalog # NotBuilt => catalog' = catalog
        /\ range.done => (from' = from /\ to' = to /\ added' = added /\ range' = range)
        /\ range'.done => (from' = range'.from /\ to' = range'.to)
        /\ (pc' = "exit" /\ range'.done) => out' = Report(range'.from, range'.to)
      ]_vars

C9_Witness ==
    /\ pc = "exit"
    /\ range.done
    /\ Len(added) = 2
    /\ "to" \in defaulted
    /\ out = Report(from, to)

\* C10: with --antennas the run only lists the catalogue and succeeds: no
\* value is parsed, no endpoint is built, no range is computed and no report
\* line is printed, whatever was given to --from and --to.
C10_AntennasOnly ==
    flag_antennas =>
        /\ parsed = <<>>
        /\ added = <<>>
        /\ from = <<>> /\ to = <<>>
        /\ ~range.done
        /\ result.ok
        /\ err = <<>>
        /\ pc \in {"start", "new", "branch", "ret", "exit"}
        /\ pc \in {"ret", "exit"} => out = print_antennas(AntennasNew)
        /\ pc = "exit" => exit = 0

C10_Witness ==
    /\ flag_antennas
    /\ pc = "exit"
    /\ exit = 0
    /\ Occurs(T_TwoColons, args_from)
    /\ Occurs(T_Unknown, args_to)

===========================================================================
